---------------------------- MODULE Spec2Model ----------------------------
(***************************************************************************)
(* A model of the HTTP server of src/http_server.ts: the promise-based     *)
(* socket adapter (soInit, soRead, soWrite), the growable buffer (bufPush, *)
(* bufPop), the framer and header parser (cutMessage, parseHTTPReq), the   *)
(* body readers (readerFromReq, readerFromConLength, readerFromMemory),    *)
(* the response writer (writeHTTPResp) and the connection driver           *)
(* (serveClient, newConn).                                                 *)
(*                                                                         *)
(* A byte is a one-character string; a Buffer and a JavaScript string are  *)
(* sequences of them.  "x00" is the zero byte of Buffer.alloc, "xFF" a     *)
(* byte that is not valid UTF-8, "uFFFD" the replacement character that    *)
(* Buffer.toString() decodes it to.                                        *)
(***************************************************************************)
EXTENDS Integers, Sequences, FiniteSets, TLC

(***************************************************************************)
(* Bounds of the model.                                                    *)
(***************************************************************************)
\* Writes recorded on the wire; later writes happen and are not recorded.
MaxWire == 4
\* Bytes a big header block has beyond the header cap.
BigExtra == 6
\* Pulls made on a body stream by the stream's consumer.
MaxPulls == 4
\* Calls of soRead made by a caller of the adapter.
MaxReads == 3
\* Bytes pushed into a buffer on its own, and pops made on it.
MaxPushed == 36
MaxPops == 2

Max(a, b) == IF a >= b THEN a ELSE b
Min(a, b) == IF a <= b THEN a ELSE b

(***************************************************************************)
(* Characters and conversions between Buffers and strings.                 *)
(***************************************************************************)
CR == "\r"
LF == "\n"
SP == " "
NUL == "x00"

Digits == {"0", "1", "2", "3", "4", "5", "6", "7", "8", "9"}
Letters ==
  {"a", "b", "c", "d", "e", "f", "g", "h", "i", "j", "k", "l", "m", "n", "o",
   "p", "q", "r", "s", "t", "u", "v", "w", "x", "y", "z",
   "A", "B", "C", "D", "E", "F", "G", "H", "I", "J", "K", "L", "M", "N", "O",
   "P", "Q", "R", "S", "T", "U", "V", "W", "X", "Y", "Z"}
\* The character class of validateHeader's regular expression ("x60" is the
\* grave accent).
TokenChars ==
  {"!", "#", "$", "%", "&", "'", "*", "+", "-", ".", "^", "_", "x60", "|", "~"}
    \cup Digits \cup Letters
\* What String.prototype.trim() removes, among the characters of the model.
WhiteSpace == {SP, "\t", CR, LF}

\* The bytes of the model that are not ASCII, and the characters that are
\* not.  The inputs of the model hold ASCII and lone "xFF" bytes; the other
\* bytes arise only in whole sequences written by Buffer.from(string).
HighBytes == {"xFF", "xEF", "xBF", "xBD", "xC3", "xAF", "xC2"}
NonAscii ==
  {"uFFFD", "u00FF", "u00EF", "u00BF", "u00BD", "u00C3", "u00AF", "u00C2"}

\* Buffer.toString(): UTF-8 decoding.  ASCII decodes to itself, a whole
\* sequence to its character, a byte that starts no sequence to U+FFFD.
RECURSIVE Utf8DecodeFrom(_, _)
Utf8DecodeFrom(b, i) ==
  IF i > Len(b) THEN <<>>
  ELSE IF i + 2 <= Len(b) /\ SubSeq(b, i, i + 2) = <<"xEF", "xBF", "xBD">>
  THEN <<"uFFFD">> \o Utf8DecodeFrom(b, i + 3)
  ELSE IF i + 1 <= Len(b) /\ SubSeq(b, i, i + 1) = <<"xC3", "xBF">>
  THEN <<"u00FF">> \o Utf8DecodeFrom(b, i + 2)
  ELSE IF i + 1 <= Len(b) /\ SubSeq(b, i, i + 1) = <<"xC3", "xAF">>
  THEN <<"u00EF">> \o Utf8DecodeFrom(b, i + 2)
  ELSE IF i + 1 <= Len(b) /\ SubSeq(b, i, i + 1) = <<"xC2", "xBF">>
  THEN <<"u00BF">> \o Utf8DecodeFrom(b, i + 2)
  ELSE IF i + 1 <= Len(b) /\ SubSeq(b, i, i + 1) = <<"xC2", "xBD">>
  THEN <<"u00BD">> \o Utf8DecodeFrom(b, i + 2)
  ELSE IF b[i] \in HighBytes THEN <<"uFFFD">> \o Utf8DecodeFrom(b, i + 1)
  ELSE <<b[i]>> \o Utf8DecodeFrom(b, i + 1)
Utf8Decode(bytes) ==
  IF \A i \in 1..Len(bytes) : bytes[i] \notin HighBytes THEN bytes
  ELSE Utf8DecodeFrom(bytes, 1)

\* Buffer.from(string): UTF-8 encoding.
Utf8EncodeChar(c) ==
  CASE c = "uFFFD" -> <<"xEF", "xBF", "xBD">>
    [] c = "u00FF" -> <<"xC3", "xBF">>
    [] c = "u00EF" -> <<"xC3", "xAF">>
    [] c = "u00BF" -> <<"xC2", "xBF">>
    [] c = "u00BD" -> <<"xC2", "xBD">>
    [] c = "u00C3" -> <<"xC3", "x83">>
    [] c = "u00AF" -> <<"xC2", "xAF">>
    [] c = "u00C2" -> <<"xC3", "x82">>
    [] OTHER -> <<c>>
RECURSIVE Utf8EncodeFrom(_, _)
Utf8EncodeFrom(s, i) ==
  IF i > Len(s) THEN <<>>
  ELSE Utf8EncodeChar(s[i]) \o Utf8EncodeFrom(s, i + 1)
Utf8Encode(s) ==
  IF \A i \in 1..Len(s) : s[i] \notin NonAscii THEN s
  ELSE Utf8EncodeFrom(s, 1)

\* Buffer.toString("latin1"): each byte decodes to the character of its
\* value.
Latin1DecodeChar(b) ==
  CASE b = "xFF" -> "u00FF" [] b = "xEF" -> "u00EF" [] b = "xBF" -> "u00BF"
    [] b = "xBD" -> "u00BD" [] b = "xC3" -> "u00C3" [] b = "xAF" -> "u00AF"
    [] b = "xC2" -> "u00C2" [] OTHER -> b
Latin1Decode(bytes) == [i \in 1..Len(bytes) |-> Latin1DecodeChar(bytes[i])]

\* String.prototype.toLowerCase() on one character.
LowerChar(c) ==
  CASE c = "A" -> "a" [] c = "B" -> "b" [] c = "C" -> "c" [] c = "D" -> "d"
    [] c = "E" -> "e" [] c = "F" -> "f" [] c = "G" -> "g" [] c = "H" -> "h"
    [] c = "I" -> "i" [] c = "J" -> "j" [] c = "K" -> "k" [] c = "L" -> "l"
    [] c = "M" -> "m" [] c = "N" -> "n" [] c = "O" -> "o" [] c = "P" -> "p"
    [] c = "Q" -> "q" [] c = "R" -> "r" [] c = "S" -> "s" [] c = "T" -> "t"
    [] c = "U" -> "u" [] c = "V" -> "v" [] c = "W" -> "w" [] c = "X" -> "x"
    [] c = "Y" -> "y" [] c = "Z" -> "z" [] OTHER -> c
ToLowerCase(s) == [i \in 1..Len(s) |-> LowerChar(s[i])]

\* String.prototype.trim().
Trim(s) ==
  LET keep == {i \in 1..Len(s) : s[i] \notin WhiteSpace}
  IN IF keep = {} THEN <<>>
     ELSE SubSeq(s, CHOOSE i \in keep : \A j \in keep : i <= j,
                    CHOOSE i \in keep : \A j \in keep : i >= j)

\* String.prototype.indexOf(c) for a one-character needle, 0-based, -1 when
\* absent.
IndexOfChar(s, c) ==
  LET at == {i \in 1..Len(s) : s[i] = c}
  IN IF at = {} THEN -1 ELSE (CHOOSE i \in at : \A j \in at : i <= j) - 1

\* The k-th smallest element of a set of integers.
Nth(P, k) == CHOOSE p \in P : Cardinality({q \in P : q < p}) = k - 1

\* String.prototype.split(sep) for a separator of sepLen characters that
\* cannot overlap itself, given the (1-based) places where it occurs.
SplitAt(s, P, sepLen) ==
  [k \in 1..(Cardinality(P) + 1) |->
     SubSeq(s, IF k = 1 THEN 1 ELSE Nth(P, k - 1) + sepLen,
               IF k = Cardinality(P) + 1 THEN Len(s) ELSE Nth(P, k) - 1)]

\* Number.prototype.toString() of a non-negative integer, as in the
\* template string of writeHTTPResp.
DigitOf(d) ==
  CASE d = 0 -> "0" [] d = 1 -> "1" [] d = 2 -> "2" [] d = 3 -> "3"
    [] d = 4 -> "4" [] d = 5 -> "5" [] d = 6 -> "6" [] d = 7 -> "7"
    [] d = 8 -> "8" [] OTHER -> "9"
RECURSIVE DecStr(_)
DecStr(n) == IF n < 10 THEN <<DigitOf(n)>>
             ELSE DecStr(n \div 10) \o <<DigitOf(n % 10)>>

(***************************************************************************)
(* The growable buffer: DynBuf = { data: Buffer; length: number }.         *)
(***************************************************************************)
\* Buffer.alloc(n): n zero bytes.
BufferAlloc(n) == [i \in 1..n |-> NUL]

\* const buf: DynBuf = { data: Buffer.alloc(0), length: 0 }
EmptyBuf == [data |-> <<>>, length |-> 0]

\* Growing to the new length itself, without the doubling.
GrowCap_Exact(cap, newLen) == IF cap < newLen THEN newLen ELSE cap

\* while (cap < newLen) cap *= 2
RECURSIVE GrowCap(_, _)
GrowCap(cap, newLen) == IF cap < newLen THEN GrowCap(cap * 2, newLen) ELSE cap

bufPush(buf, data) ==
  LET newLen == buf.length + Len(data)
      cap == GrowCap(Max(IF Len(buf.data) = 0 THEN 32 ELSE Len(buf.data), 32),
                     newLen)
      grown == IF Len(buf.data) < newLen
               THEN [i \in 1..cap |->
                       IF i <= buf.length THEN buf.data[i] ELSE NUL]
               ELSE buf.data
  IN [data |-> [i \in 1..Len(grown) |->
                  IF i > buf.length /\ i <= newLen
                  THEN data[i - buf.length] ELSE grown[i]],
      length |-> newLen]

\* bufPop without the copy: only buf.length -= len.
bufPop_NoCopy(buf, len) == [data |-> buf.data, length |-> buf.length - len]

\* buf.data.copy(buf.data, 0, len, buf.length); buf.length -= len
bufPop(buf, len) ==
  LET moved == Max(buf.length - len, 0)
  IN [data |-> [i \in 1..Len(buf.data) |->
                  IF i <= moved THEN buf.data[i + len] ELSE buf.data[i]],
      length |-> buf.length - len]

\* buf.data.subarray(0, buf.length): the logical content.
View(buf) == SubSeq(buf.data, 1, buf.length)

(***************************************************************************)
(* Errors.  An HTTPError carries a status code and a message; a plain      *)
(* Error (a transport error, an unexpected EOF in a body) does not.        *)
(***************************************************************************)
HTTPError(code, message) ==
  [kind |-> "err", http |-> TRUE, code |-> code, message |-> message]
PlainError(message) ==
  [kind |-> "err", http |-> FALSE, code |-> 0, message |-> message]

MsgHeaderTooLarge ==
  <<"h", "e", "a", "d", "e", "r", " ", "t", "o", "o", " ",
    "l", "a", "r", "g", "e">>
MsgBadRequestLine ==
  <<"b", "a", "d", " ", "r", "e", "q", "u", "e", "s", "t", " ",
    "l", "i", "n", "e">>
MsgBadVersion == <<"b", "a", "d", " ", "v", "e", "r", "s", "i", "o", "n">>
MsgBadField == <<"b", "a", "d", " ", "f", "i", "e", "l", "d">>
MsgUnexpectedEOF ==
  <<"U", "n", "e", "x", "p", "e", "c", "t", "e", "d", " ", "E", "O", "F">>
MsgBadContentLength ==
  <<"b", "a", "d", " ", "C", "o", "n", "t", "e", "n", "t", "-",
    "L", "e", "n", "g", "t", "h">>
MsgBodyNotAllowed ==
  <<"H", "T", "T", "P", " ", "b", "o", "d", "y", " ", "n", "o", "t", " ",
    "a", "l", "l", "o", "w", "e", "d">>
MsgChunked ==
  <<"c", "h", "u", "n", "k", "e", "d", " ", "n", "o", "t", " ",
    "i", "m", "p", "l", "e", "m", "e", "n", "t", "e", "d">>
MsgUnknownBody ==
  <<"u", "n", "k", "n", "o", "w", "n", " ", "b", "o", "d", "y", " ",
    "t", "y", "p", "e">>
MsgEOFInBody ==
  <<"U", "n", "e", "x", "p", "e", "c", "t", "e", "d", " ", "E", "O", "F", " ",
    "i", "n", " ", "b", "o", "d", "y">>
MsgTransport == <<"s", "o", "c", "k", "e", "t">>

(***************************************************************************)
(* The framer and the header parser.                                       *)
(***************************************************************************)
kMaxHeaderLen == 8 * 1024

\* view.indexOf("\r\n\r\n"), 0-based, -1 when absent.
IndexOfTerminator(view) ==
  LET at == {i \in 1..(Len(view) - 3) :
               /\ view[i] = CR /\ view[i + 1] = LF
               /\ view[i + 2] = CR /\ view[i + 3] = LF}
  IN IF at = {} THEN -1 ELSE (CHOOSE i \in at : \A j \in at : i <= j) - 1

\* data.toString().split("\r\n").map(s => Buffer.from(s))
splitLines(data) ==
  LET str == Utf8Decode(data)
      at == {i \in 1..(Len(str) - 1) : str[i] = CR /\ str[i + 1] = LF}
      parts == SplitAt(str, at, 2)
  IN [k \in 1..Len(parts) |-> Utf8Encode(parts[k])]

\* Either an HTTPError or [method, uri, version].
parseRequestLine(line) ==
  LET str == Trim(Utf8Decode(line))
      parts == SplitAt(str, {i \in 1..Len(str) : str[i] = SP}, 1)
  IN IF Len(parts) # 3 THEN HTTPError(400, MsgBadRequestLine)
     ELSE LET version == parts[3]
          IN IF ~(Len(version) >= 5
                  /\ SubSeq(version, 1, 5) = <<"H", "T", "T", "P", "/">>)
             THEN HTTPError(400, MsgBadVersion)
             ELSE [kind |-> "line", method |-> parts[1],
                   uri |-> Utf8Encode(parts[2]),
                   version |-> SubSeq(version, 6, Len(version))]

validateHeader(line) ==
  LET str == Utf8Decode(line)
      idx == IndexOfChar(str, ":")
  IN IF idx <= 0 \/ idx = Len(str) - 1 THEN FALSE
     ELSE \A i \in 1..idx : str[i] \in TokenChars

\* The header lines the loop of parseHTTPReq visits: lines[1] to
\* lines[lines.length - 2] (0-based), that is all but the first and the
\* last.
HeaderLineRange(lines) == 2..(Len(lines) - 1)

\* Either an HTTPError or an HTTPReq.
parseHTTPReq(data) ==
  LET lines == splitLines(data)
      first == parseRequestLine(lines[1])
  IN IF first.kind = "err" THEN first
     ELSE IF \E i \in HeaderLineRange(lines) : ~validateHeader(lines[i])
     THEN HTTPError(400, MsgBadField)
     ELSE [kind |-> "req", method |-> first.method, uri |-> first.uri,
           version |-> first.version,
           headers |-> [k \in 1..(Len(lines) - 2) |-> lines[k + 1]]]

\* cutMessage with the cap compared by > instead of >=.
cutMessage_CapExclusive(buf) ==
  LET view == View(buf)
      idx == IndexOfTerminator(view)
  IN IF idx < 0
     THEN [res |-> IF buf.length > kMaxHeaderLen
                   THEN HTTPError(413, MsgHeaderTooLarge)
                   ELSE [kind |-> "null"],
           buf |-> buf]
     ELSE LET msg == parseHTTPReq(SubSeq(view, 1, idx + 4))
          IN IF msg.kind = "err" THEN [res |-> msg, buf |-> buf]
             ELSE [res |-> msg, buf |-> bufPop(buf, idx + 4)]

\* cutMessage with bufPop before parseHTTPReq.
cutMessage_PopFirst(buf) ==
  LET view == View(buf)
      idx == IndexOfTerminator(view)
  IN IF idx < 0
     THEN [res |-> IF buf.length >= kMaxHeaderLen
                   THEN HTTPError(413, MsgHeaderTooLarge)
                   ELSE [kind |-> "null"],
           buf |-> buf]
     ELSE [res |-> parseHTTPReq(SubSeq(view, 1, idx + 4)),
           buf |-> bufPop(buf, idx + 4)]

\* cutMessage's result (null, an HTTPReq, or the HTTPError it throws) and the
\* buffer it leaves.
cutMessage(buf) ==
  LET view == View(buf)
      idx == IndexOfTerminator(view)
  IN IF idx < 0
     THEN [res |-> IF buf.length >= kMaxHeaderLen
                   THEN HTTPError(413, MsgHeaderTooLarge)
                   ELSE [kind |-> "null"],
           buf |-> buf]
     ELSE LET msg == parseHTTPReq(SubSeq(view, 1, idx + 4))
          IN IF msg.kind = "err" THEN [res |-> msg, buf |-> buf]
             ELSE [res |-> msg, buf |-> bufPop(buf, idx + 4)]

(***************************************************************************)
(* Header lookup.                                                          *)
(***************************************************************************)
\* fieldGet's result: the trimmed value of the first header line whose name
\* is key, or null.
fieldGet(headers, key) ==
  LET lower == ToLowerCase(key)
      Str(k) == Latin1Decode(headers[k])
      Colon(k) == IndexOfChar(Str(k), ":")
      hits == {k \in 1..Len(headers) :
                 /\ Colon(k) > 0
                 /\ ToLowerCase(Trim(SubSeq(Str(k), 1, Colon(k)))) = lower}
  IN IF hits = {} THEN [found |-> FALSE, value |-> <<>>]
     ELSE LET k == CHOOSE h \in hits : \A j \in hits : h <= j
          IN [found |-> TRUE,
              value |-> Utf8Encode(
                 Trim(SubSeq(Str(k), Colon(k) + 2, Len(Str(k)))))]

DigitValue(c) ==
  CASE c = "0" -> 0 [] c = "1" -> 1 [] c = "2" -> 2 [] c = "3" -> 3
    [] c = "4" -> 4 [] c = "5" -> 5 [] c = "6" -> 6 [] c = "7" -> 7
    [] c = "8" -> 8 [] OTHER -> 9
RECURSIVE DigitsValue(_, _)
DigitsValue(s, n) ==
  IF n = 0 THEN 0 ELSE DigitsValue(s, n - 1) * 10 + DigitValue(s[n])

\* parseInt(str, 10): leading white space is skipped, a sign is read, then
\* the longest run of digits; NaN when there is no digit.
parseDec(str) ==
  LET keep == {i \in 1..Len(str) : str[i] \notin WhiteSpace}
      start == IF keep = {} THEN Len(str) + 1
               ELSE CHOOSE i \in keep : \A j \in keep : i <= j
      s == SubSeq(str, start, Len(str))
      signed == Len(s) > 0 /\ s[1] \in {"+", "-"}
      d == IF signed THEN SubSeq(s, 2, Len(s)) ELSE s
      stop == {i \in 1..Len(d) : d[i] \notin Digits}
      n == IF stop = {} THEN Len(d)
           ELSE (CHOOSE i \in stop : \A j \in stop : i <= j) - 1
  IN IF n = 0 THEN [nan |-> TRUE, value |-> 0]
     ELSE [nan |-> FALSE,
           value |-> IF signed /\ s[1] = "-" THEN 0 - DigitsValue(d, n)
                     ELSE DigitsValue(d, n)]

(***************************************************************************)
(* Body readers.  A BodyReader is its declared length and the state its    *)
(* read() closes over: remain for the length-bounded stream, data and done *)
(* for the in-memory stream.                                               *)
(***************************************************************************)
readerFromConLength(remain) ==
  [kind |-> "cl", length |-> remain, remain |-> remain,
   data |-> <<>>, done |-> FALSE]

readerFromMemory(data) ==
  [kind |-> "mem", length |-> Len(data), remain |-> 0,
   data |-> data, done |-> FALSE]

\* read() of the in-memory stream: the chunk it returns and the stream
\* after.  `if (done) Buffer.from("");` has no return: the payload is
\* returned on every call.
ReadMemory(body) == [chunk |-> body.data, body |-> [body EXCEPT !.done = TRUE]]

HdrContentLength ==
  <<"C", "o", "n", "t", "e", "n", "t", "-", "L", "e", "n", "g", "t", "h">>
HdrTransferEncoding ==
  <<"T", "r", "a", "n", "s", "f", "e", "r", "-",
    "E", "n", "c", "o", "d", "i", "n", "g">>
ValChunked == <<"c", "h", "u", "n", "k", "e", "d">>

\* readerFromReq without `if (!bodyAllowed) bodyLen = 0`.
readerFromReq_NoForcedZero(req) ==
  LET cl == fieldGet(req.headers, HdrContentLength)
      dec == parseDec(Latin1Decode(cl.value))
      bodyLen == IF cl.found THEN dec.value ELSE -1
      bodyAllowed == ~(req.method = <<"G", "E", "T">>
                       \/ req.method = <<"H", "E", "A", "D">>)
      te == fieldGet(req.headers, HdrTransferEncoding)
      chunked == te.found /\ te.value = ValChunked
  IN IF cl.found /\ dec.nan THEN HTTPError(400, MsgBadContentLength)
     ELSE IF ~bodyAllowed /\ (bodyLen > 0 \/ chunked)
     THEN HTTPError(400, MsgBodyNotAllowed)
     ELSE IF bodyLen >= 0 THEN readerFromConLength(bodyLen)
     ELSE IF chunked THEN HTTPError(501, MsgChunked)
     ELSE HTTPError(501, MsgUnknownBody)

\* readerFromReq with `let bodyLen = 0` instead of -1.
readerFromReq_DefaultZero(req) ==
  LET cl == fieldGet(req.headers, HdrContentLength)
      dec == parseDec(Latin1Decode(cl.value))
      bodyLen0 == IF cl.found THEN dec.value ELSE 0
      bodyAllowed == ~(req.method = <<"G", "E", "T">>
                       \/ req.method = <<"H", "E", "A", "D">>)
      te == fieldGet(req.headers, HdrTransferEncoding)
      chunked == te.found /\ te.value = ValChunked
      bodyLen == IF ~bodyAllowed THEN 0 ELSE bodyLen0
  IN IF cl.found /\ dec.nan THEN HTTPError(400, MsgBadContentLength)
     ELSE IF ~bodyAllowed /\ (bodyLen0 > 0 \/ chunked)
     THEN HTTPError(400, MsgBodyNotAllowed)
     ELSE IF bodyLen >= 0 THEN readerFromConLength(bodyLen)
     ELSE IF chunked THEN HTTPError(501, MsgChunked)
     ELSE HTTPError(501, MsgUnknownBody)

\* Either the HTTPError readerFromReq throws or the BodyReader it returns.
readerFromReq(req) ==
  LET cl == fieldGet(req.headers, HdrContentLength)
      dec == parseDec(Latin1Decode(cl.value))
      bodyLen0 == IF cl.found THEN dec.value ELSE -1
      bodyAllowed == ~(req.method = <<"G", "E", "T">>
                       \/ req.method = <<"H", "E", "A", "D">>)
      te == fieldGet(req.headers, HdrTransferEncoding)
      chunked == te.found /\ te.value = ValChunked
      bodyLen == IF ~bodyAllowed THEN 0 ELSE bodyLen0
  IN IF cl.found /\ dec.nan THEN HTTPError(400, MsgBadContentLength)
     ELSE IF ~bodyAllowed /\ (bodyLen0 > 0 \/ chunked)
     THEN HTTPError(400, MsgBodyNotAllowed)
     ELSE IF bodyLen >= 0 THEN readerFromConLength(bodyLen)
     ELSE IF chunked THEN HTTPError(501, MsgChunked)
     ELSE HTTPError(501, MsgUnknownBody)

(***************************************************************************)
(* The handler and the response encoder.                                   *)
(***************************************************************************)
HelloWorld ==
  <<"H", "e", "l", "l", "o", " ", "W", "o", "r", "l", "d", ".", LF>>
HdrServer ==
  <<"S", "e", "r", "v", "e", "r", ":", "m", "y", "_", "f", "i", "r", "s", "t",
    "_", "h", "t", "t", "p", "_", "s", "e", "r", "v", "e", "r">>

\* The HTTPRes HandleReq returns.
HandleReq(req, body) ==
  [code |-> 200, headers |-> <<HdrServer>>,
   body |-> IF Latin1Decode(req.uri) = <<"/", "e", "c", "h", "o">>
            THEN body ELSE readerFromMemory(HelloWorld)]

\* The HTTPRes newConn builds from a caught HTTPError.
ErrorResp(e) ==
  [code |-> e.code, headers |-> <<>>,
   body |-> readerFromMemory(e.message \o <<LF>>)]

RECURSIVE JoinLines(_, _)
JoinLines(headers, k) ==
  IF k > Len(headers) THEN <<>>
  ELSE Latin1Decode(headers[k]) \o <<CR, LF>> \o JoinLines(headers, k + 1)

\* encodeHTTPResp without parts.push("\r\n").
encodeHTTPResp_NoBlankLine(res) ==
  Utf8Encode(<<"H", "T", "T", "P", "/", "1", ".", "1", SP>> \o DecStr(res.code)
             \o <<SP, "O", "K", CR, LF>>
             \o JoinLines(res.headers, 1))

encodeHTTPResp(res) ==
  Utf8Encode(<<"H", "T", "T", "P", "/", "1", ".", "1", SP>> \o DecStr(res.code)
             \o <<SP, "O", "K", CR, LF>>
             \o JoinLines(res.headers, 1) \o <<CR, LF>>)

\* resp.headers.push(Buffer.from(`Content-Length: ${resp.body.length}`))
WithContentLength(resp) ==
  [resp EXCEPT !.headers =
     Append(@, Utf8Encode(HdrContentLength \o <<":", SP>>
                          \o DecStr(resp.body.length)))]

(***************************************************************************)
(* read() of a BodyReader, in the two halves its one await splits it into. *)
(***************************************************************************)
\* The consume step without Math.min: everything buffered is taken.
ConsumeCL_WholeBuffer(body, buf) ==
  [kind |-> "chunk", chunk |-> SubSeq(buf.data, 1, buf.length),
   body |-> [body EXCEPT !.remain = @ - buf.length],
   buf |-> bufPop(buf, buf.length)]

\* The consume step counting down the length field as well as remain.
ConsumeCL_ShrinksLength(body, buf) ==
  LET consume == Min(buf.length, body.remain)
  IN [kind |-> "chunk", chunk |-> SubSeq(buf.data, 1, consume),
      body |-> [body EXCEPT !.remain = @ - consume, !.length = @ - consume],
      buf |-> bufPop(buf, consume)]

\* const consume = Math.min(buf.length, remain); remain -= consume;
\* const chunk = Buffer.from(buf.data.subarray(0, consume));
\* bufPop(buf, consume); return chunk
ConsumeCL(body, buf) ==
  LET consume == Min(buf.length, body.remain)
  IN [kind |-> "chunk", chunk |-> SubSeq(buf.data, 1, consume),
      body |-> [body EXCEPT !.remain = @ - consume],
      buf |-> bufPop(buf, consume)]

\* read() up to its first await: it returns a chunk, or it calls soRead
\* ("await").
ReadStart(body, buf) ==
  IF body.kind = "mem"
  THEN [kind |-> "chunk", chunk |-> ReadMemory(body).chunk,
        body |-> ReadMemory(body).body, buf |-> buf]
  ELSE IF body.remain = 0
  THEN [kind |-> "chunk", chunk |-> <<>>, body |-> body, buf |-> buf]
  ELSE IF buf.length = 0
  THEN [kind |-> "await", chunk |-> <<>>, body |-> body, buf |-> buf]
  ELSE ConsumeCL(body, buf)

\* read() after soRead resolved with data: bufPush(buf, data); an empty
\* chunk throws, anything else is consumed.
ReadResume(body, buf, data) ==
  IF Len(data) = 0
  THEN [kind |-> "throw", chunk |-> <<>>, body |-> body,
        buf |-> bufPush(buf, data)]
  ELSE ConsumeCL(body, bufPush(buf, data))

(***************************************************************************)
(* What the peer sends.                                                    *)
(***************************************************************************)
Terminator == <<CR, LF, CR, LF>>
ReqLineTail == <<SP, "/", SP, "H", "T", "T", "P", "/", "1">>

\* A well-formed request with one header line.
ValidBlock == <<"G">> \o ReqLineTail \o <<CR, LF, "A", ":", "b">> \o Terminator
\* A well-formed request with no header line.
BareBlock == <<"G">> \o ReqLineTail \o Terminator
\* Two tokens on the request line.
ShortLineBlock == <<"G", SP, "/">> \o Terminator
\* A version without the HTTP/ prefix.
BadVersionBlock == <<"G", SP, "/", SP, "X">> \o Terminator
\* A header line with an empty name.
BadFieldBlock ==
  <<"G">> \o ReqLineTail \o <<CR, LF, ":", "b">> \o Terminator
\* A target that is not valid UTF-8.
OpaqueBlock == <<"G", SP, "/", "xFF", SP, "H", "T", "T", "P", "/", "1">>
                 \o Terminator
\* A well-formed request whose header block is BigExtra bytes longer than
\* the header cap: a long method, then the usual line.
BigBlock ==
  [i \in 1..(kMaxHeaderLen + BigExtra - Len(ReqLineTail) - 4) |-> "a"]
    \o ReqLineTail \o Terminator

Inputs ==
  {ValidBlock, BareBlock, ShortLineBlock, BadVersionBlock, BadFieldBlock,
   OpaqueBlock, BigBlock}

\* Where the transport may split the input into chunks: anywhere in a short
\* input, around the header cap in a long one.
CutPoints(in) ==
  IF Len(in) < kMaxHeaderLen THEN 1..Len(in)
  ELSE {kMaxHeaderLen \div 2, kMaxHeaderLen - 1, kMaxHeaderLen,
        kMaxHeaderLen + 1, Len(in)}

(***************************************************************************)
(* State.                                                                  *)
(***************************************************************************)
VARIABLES
  input,     \* the bytes the peer sends, in order
  sent,      \* how many of them the transport has delivered
  sock,      \* the socket: paused, ended ('end' emitted), errored, destroyed
  reader,    \* conn.reader: "null" or "set"
  reads,     \* the promises soRead returned, in order: "pending", resolved
             \* with "data" or with an empty chunk ("eof"), or rejected ("err")
  held,      \* which of them conn.reader settles, 0 when conn.reader is null
  buf,       \* the connection's DynBuf
  pc,        \* where the connection's code is
  msg,       \* cutMessage's result in serveClient
  rres,      \* what the promise of soRead was settled with
  exc,       \* the exception caught by newConn, or thrown to the consumer
  resp,      \* the response writeHTTPResp is writing: code and headers
  body,      \* the BodyReader being read
  wdata,     \* the bytes of the write in flight
  wire,      \* the writes the transport completed, in order
  handled,   \* what HandleReq was called with and returned, in order
  nReads,    \* calls of soRead
  cutBlock,  \* the header block the last cutMessage handed to parseHTTPReq
  pulled,    \* the pulls of the consumer: chunk returned, transport read made
  tag        \* the request a body reader is made from, as drawn

vars == <<input, sent, sock, reader, reads, held, buf, pc, msg, rres, exc,
          resp, body, wdata, wire, handled, nReads, cutBlock, pulled, tag>>

NoExc == [kind |-> "none", http |-> FALSE, code |-> 0, message |-> <<>>]
NoResp == [active |-> FALSE, code |-> 0, headers |-> <<>>]
NoBody == [kind |-> "none", length |-> 0, remain |-> 0,
           data |-> <<>>, done |-> FALSE]
NoTag == [method |-> <<>>, uri |-> <<>>,
          cl |-> [present |-> FALSE, text |-> <<>>, class |-> "absent",
                  n |-> 0],
          te |-> [present |-> FALSE, text |-> <<>>]]
\* pauseOnConnect: true
NewSocket == [paused |-> TRUE, ended |-> FALSE, errored |-> FALSE,
              destroyed |-> FALSE]

\* The code is suspended in an await of the transport.
AwaitingRead == pc \in {"awaitRead", "bodyAwaitRead"}
AwaitingWrite == pc \in {"awaitHeaderWrite", "awaitBodyWrite"}

\* newConn: conn = soInit(socket); serveClient: buf = empty.
Init ==
  /\ input \in Inputs
  /\ sent = 0
  /\ sock = NewSocket
  /\ reader = "null"
  /\ reads = <<>>
  /\ held = 0
  /\ buf = EmptyBuf
  /\ pc = "serve"
  /\ msg = [kind |-> "null"]
  /\ rres = [kind |-> "none", data |-> <<>>]
  /\ exc = NoExc
  /\ resp = NoResp
  /\ body = NoBody
  /\ wdata = <<>>
  /\ wire = <<>>
  /\ handled = <<>>
  /\ nReads = 0
  /\ cutBlock = <<>>
  /\ pulled = <<>>
  /\ tag = NoTag

(***************************************************************************)
(* The socket adapter.                                                     *)
(***************************************************************************)
\* The state the code resumes in when its read is settled.
Resumed == IF pc = "awaitRead" THEN "gotRead" ELSE "bodyGotRead"

\* soRead: conn.reader = { resolve, reject }; conn.socket.resume(); the
\* caller awaits in `next`.
soRead(next) ==
  /\ reader' = "set"
  /\ reads' = Append(reads, "pending")
  /\ held' = Len(reads) + 1
  /\ sock' = [sock EXCEPT !.paused = FALSE]
  /\ nReads' = nReads + 1
  /\ pc' = next

\* The transport emits events only while the code is suspended.
Suspended == AwaitingRead \/ AwaitingWrite \/ pc = "idle"

\* socket.on("data") without conn.socket.pause().
OnData_NoPause ==
  /\ Suspended
  /\ ~sock.paused /\ ~sock.ended /\ ~sock.errored /\ ~sock.destroyed
  /\ \E p \in CutPoints(input) :
       /\ p > sent
       /\ sent' = p
       /\ sock' = sock
       /\ IF reader = "set"
          THEN /\ rres' = [kind |-> "data", data |-> SubSeq(input, sent + 1, p)]
               /\ reader' = "null"
               /\ reads' = [reads EXCEPT ![held] = "data"]
               /\ held' = 0
               /\ pc' = Resumed
          ELSE /\ pc' = "crashed"
               /\ UNCHANGED <<rres, reader, reads, held>>
  /\ UNCHANGED <<input, buf, msg, exc, resp, body, wdata, wire, handled,
                 nReads, cutBlock, pulled, tag>>

\* socket.on("data") without `conn.reader = null`.
OnData_KeepsReader ==
  /\ Suspended
  /\ ~sock.paused /\ ~sock.ended /\ ~sock.errored /\ ~sock.destroyed
  /\ \E p \in CutPoints(input) :
       /\ p > sent
       /\ sent' = p
       /\ sock' = [sock EXCEPT !.paused = TRUE]
       /\ IF reader = "set"
          THEN /\ rres' = [kind |-> "data", data |-> SubSeq(input, sent + 1, p)]
               /\ reads' = [reads EXCEPT ![held] = "data"]
               /\ held' = 0
               /\ pc' = Resumed
               /\ UNCHANGED reader
          ELSE /\ pc' = "crashed"
               /\ UNCHANGED <<rres, reader, reads, held>>
  /\ UNCHANGED <<input, buf, msg, exc, resp, body, wdata, wire, handled,
                 nReads, cutBlock, pulled, tag>>

\* socket.on("data"): pause, resolve the read, clear the reader.  With no
\* reader, conn.reader!.resolve throws inside the event handler.
OnData ==
  /\ Suspended
  /\ ~sock.paused /\ ~sock.ended /\ ~sock.errored /\ ~sock.destroyed
  /\ \E p \in CutPoints(input) :
       /\ p > sent
       /\ sent' = p
       /\ sock' = [sock EXCEPT !.paused = TRUE]
       /\ IF reader = "set"
          THEN /\ rres' = [kind |-> "data", data |-> SubSeq(input, sent + 1, p)]
               /\ reader' = "null"
               /\ reads' = [reads EXCEPT ![held] = "data"]
               /\ held' = 0
               /\ pc' = Resumed
          ELSE /\ pc' = "crashed"
               /\ UNCHANGED <<rres, reader, reads, held>>
  /\ UNCHANGED <<input, buf, msg, exc, resp, body, wdata, wire, handled,
                 nReads, cutBlock, pulled, tag>>

\* socket.on("end"): resolve the outstanding read, if any, with an empty
\* chunk.  The peer may end the stream after any prefix of its bytes.
OnEnd ==
  /\ Suspended
  /\ ~sock.paused /\ ~sock.ended /\ ~sock.errored /\ ~sock.destroyed
  /\ sock' = [sock EXCEPT !.ended = TRUE]
  /\ IF reader = "set"
     THEN /\ rres' = [kind |-> "data", data |-> <<>>]
          /\ reader' = "null"
          /\ reads' = [reads EXCEPT ![held] = "eof"]
          /\ held' = 0
          /\ pc' = Resumed
     ELSE UNCHANGED <<rres, reader, reads, held, pc>>
  /\ UNCHANGED <<input, sent, buf, msg, exc, resp, body, wdata, wire,
                 handled, nReads, cutBlock, pulled, tag>>

\* socket.on("error"): reject the outstanding read, if any.
OnError ==
  /\ Suspended
  /\ ~sock.errored /\ ~sock.destroyed
  /\ sock' = [sock EXCEPT !.errored = TRUE]
  /\ IF reader = "set"
     THEN /\ rres' = [kind |-> "err", data |-> <<>>]
          /\ reader' = "null"
          /\ reads' = [reads EXCEPT ![held] = "err"]
          /\ held' = 0
          /\ pc' = Resumed
     ELSE UNCHANGED <<rres, reader, reads, held, pc>>
  /\ UNCHANGED <<input, sent, buf, msg, exc, resp, body, wdata, wire,
                 handled, nReads, cutBlock, pulled, tag>>

\* soWrite's callback without an error: the promise resolves and
\* writeHTTPResp goes on to pull the body.
WriteOk ==
  /\ AwaitingWrite
  /\ ~sock.errored /\ ~sock.destroyed
  /\ wire' = IF Len(wire) < MaxWire THEN Append(wire, wdata) ELSE wire
  /\ pc' = "pullBody"
  /\ UNCHANGED <<input, sent, sock, reader, reads, held, buf, msg, rres, exc,
                 resp, body,
                 wdata, handled, nReads, cutBlock, pulled, tag>>

\* soWrite's callback with an error: the promise rejects, writeHTTPResp
\* throws, and the inner catch of newConn ignores it.
WriteFail ==
  /\ AwaitingWrite
  /\ pc' = "finally"
  /\ UNCHANGED <<input, sent, sock, reader, reads, held, buf, msg, rres, exc,
                 resp, body,
                 wdata, wire, handled, nReads, cutBlock, pulled, tag>>

(***************************************************************************)
(* The connection driver.                                                  *)
(***************************************************************************)
\* serveClient: const msg = cutMessage(buf)
CutStep ==
  /\ pc = "serve"
  /\ msg' = cutMessage(buf).res
  /\ buf' = cutMessage(buf).buf
  /\ cutBlock' = IF IndexOfTerminator(View(buf)) < 0 THEN <<>>
                 ELSE SubSeq(View(buf), 1, IndexOfTerminator(View(buf)) + 4)
  /\ pc' = "cut"
  /\ UNCHANGED <<input, sent, sock, reader, reads, held, rres, exc, resp,
                 body, wdata,
                 wire, handled, nReads, pulled, tag>>

\* serveClient after cutMessage: its HTTPError goes to the catch of newConn;
\* null reads more; a request is given to readerFromReq and HandleReq, whose
\* response is dropped, and the loop goes on.
AfterCut ==
  /\ pc = "cut"
  /\ IF msg.kind = "err"
     THEN /\ exc' = msg
          /\ pc' = "catch"
          /\ UNCHANGED <<reader, reads, held, sock, nReads, handled>>
     ELSE IF msg.kind = "null"
     THEN /\ soRead("awaitRead")
          /\ UNCHANGED <<exc, handled>>
     ELSE IF readerFromReq(msg).kind = "err"
     THEN /\ exc' = readerFromReq(msg)
          /\ pc' = "catch"
          /\ UNCHANGED <<reader, reads, held, sock, nReads, handled>>
     ELSE /\ handled' = Append(handled,
                 [req |-> msg, res |-> HandleReq(msg, readerFromReq(msg))])
          /\ pc' = "serve"
          /\ UNCHANGED <<reader, reads, held, sock, nReads, exc>>
  /\ UNCHANGED <<input, sent, buf, msg, rres, resp, body, wdata, wire,
                 cutBlock, pulled, tag>>

\* writeHTTPResp after a chunk was pulled: an empty chunk ends the loop and
\* newConn goes to its finally; any other chunk is written.
WriterGot(chunk) ==
  IF Len(chunk) = 0
  THEN pc' = "finally" /\ UNCHANGED wdata
  ELSE pc' = "awaitBodyWrite" /\ wdata' = chunk

\* The consumer of a body stream after a chunk was pulled.
ConsumerGot(chunk, didRead) ==
  /\ pulled' = Append(pulled, [chunk |-> chunk, read |-> didRead])
  /\ pc' = "idle"

\* The code after `await soRead(conn)` without the clean return of
\* serveClient: every empty chunk throws "Unexpected EOF".
AfterRead_NoCleanEOF ==
  /\ pc \in {"gotRead", "bodyGotRead"}
  /\ IF pc = "gotRead"
     THEN /\ IF rres.kind = "err"
             THEN /\ exc' = PlainError(MsgTransport)
                  /\ pc' = "catch"
                  /\ UNCHANGED buf
             ELSE /\ buf' = bufPush(buf, rres.data)
                  /\ IF Len(rres.data) = 0
                     THEN /\ exc' = HTTPError(400, MsgUnexpectedEOF)
                          /\ pc' = "catch"
                     ELSE pc' = "serve" /\ UNCHANGED exc
          /\ UNCHANGED <<body, wdata, pulled>>
     ELSE LET r == ReadResume(body, buf, rres.data)
          IN IF rres.kind = "err" \/ r.kind = "throw"
             THEN /\ buf' = IF rres.kind = "err" THEN buf ELSE r.buf
                  /\ IF resp.active
                     THEN pc' = "finally" /\ UNCHANGED exc
                     ELSE /\ pc' = "failed"
                          /\ exc' = PlainError(IF rres.kind = "err"
                                               THEN MsgTransport
                                               ELSE MsgEOFInBody)
                  /\ UNCHANGED <<body, wdata, pulled>>
             ELSE /\ buf' = r.buf
                  /\ body' = r.body
                  /\ IF resp.active
                     THEN WriterGot(r.chunk) /\ UNCHANGED pulled
                     ELSE ConsumerGot(r.chunk, TRUE) /\ UNCHANGED wdata
                  /\ UNCHANGED exc
  /\ UNCHANGED <<input, sent, sock, reader, reads, held, msg, rres, resp,
                 wire, handled,
                 nReads, cutBlock, tag>>

\* The code after `await soRead(conn)`, in serveClient and in read().
AfterRead ==
  /\ pc \in {"gotRead", "bodyGotRead"}
  /\ IF pc = "gotRead"
     THEN /\ IF rres.kind = "err"
             THEN /\ exc' = PlainError(MsgTransport)
                  /\ pc' = "catch"
                  /\ UNCHANGED buf
             ELSE /\ buf' = bufPush(buf, rres.data)
                  /\ IF Len(rres.data) = 0 /\ buf.length = 0
                     THEN pc' = "finally" /\ UNCHANGED exc
                     ELSE IF Len(rres.data) = 0
                     THEN /\ exc' = HTTPError(400, MsgUnexpectedEOF)
                          /\ pc' = "catch"
                     ELSE pc' = "serve" /\ UNCHANGED exc
          /\ UNCHANGED <<body, wdata, pulled>>
     ELSE LET r == ReadResume(body, buf, rres.data)
          IN IF rres.kind = "err" \/ r.kind = "throw"
             THEN /\ buf' = IF rres.kind = "err" THEN buf ELSE r.buf
                  /\ IF resp.active
                     THEN pc' = "finally" /\ UNCHANGED exc
                     ELSE /\ pc' = "failed"
                          /\ exc' = PlainError(IF rres.kind = "err"
                                               THEN MsgTransport
                                               ELSE MsgEOFInBody)
                  /\ UNCHANGED <<body, wdata, pulled>>
             ELSE /\ buf' = r.buf
                  /\ body' = r.body
                  /\ IF resp.active
                     THEN WriterGot(r.chunk) /\ UNCHANGED pulled
                     ELSE ConsumerGot(r.chunk, TRUE) /\ UNCHANGED wdata
                  /\ UNCHANGED exc
  /\ UNCHANGED <<input, sent, sock, reader, reads, held, msg, rres, resp,
                 wire, handled,
                 nReads, cutBlock, tag>>

\* newConn's catch without the instanceof test: every exception is answered.
Catch_AnyError ==
  /\ pc = "catch"
  /\ resp' = [active |-> TRUE,
              code |-> ErrorResp(exc).code,
              headers |-> WithContentLength(ErrorResp(exc)).headers]
  /\ body' = ErrorResp(exc).body
  /\ wdata' = encodeHTTPResp(WithContentLength(ErrorResp(exc)))
  /\ pc' = "awaitHeaderWrite"
  /\ UNCHANGED <<input, sent, sock, reader, reads, held, buf, msg, rres, exc,
                 wire,
                 handled, nReads, cutBlock, pulled, tag>>

\* newConn's catch: an HTTPError is answered by writeHTTPResp, which rejects
\* a negative body length, appends Content-Length and writes the header
\* block; any other exception goes to the finally.
Catch ==
  /\ pc = "catch"
  /\ IF exc.http /\ ErrorResp(exc).body.length >= 0
     THEN /\ resp' = [active |-> TRUE,
                      code |-> ErrorResp(exc).code,
                      headers |-> WithContentLength(ErrorResp(exc)).headers]
          /\ body' = ErrorResp(exc).body
          /\ wdata' = encodeHTTPResp(WithContentLength(ErrorResp(exc)))
          /\ pc' = "awaitHeaderWrite"
     ELSE /\ pc' = "finally"
          /\ UNCHANGED <<resp, body, wdata>>
  /\ UNCHANGED <<input, sent, sock, reader, reads, held, buf, msg, rres, exc,
                 wire,
                 handled, nReads, cutBlock, pulled, tag>>

\* writeHTTPResp: const data = await resp.body.read(); then break or write.
PullBody ==
  /\ pc = "pullBody"
  /\ LET r == ReadStart(body, buf)
     IN IF r.kind = "await"
        THEN /\ soRead("bodyAwaitRead")
             /\ UNCHANGED <<body, buf, wdata>>
        ELSE /\ body' = r.body
             /\ buf' = r.buf
             /\ WriterGot(r.chunk)
             /\ UNCHANGED <<reader, reads, held, sock, nReads>>
  /\ UNCHANGED <<input, sent, msg, rres, exc, resp, wire, handled, cutBlock,
                 pulled, tag>>

\* newConn's finally: socket.destroy().
Destroy ==
  /\ pc = "finally"
  /\ sock' = [sock EXCEPT !.destroyed = TRUE]
  /\ pc' = "closed"
  /\ UNCHANGED <<input, sent, reader, reads, held, buf, msg, rres, exc, resp,
                 body, wdata,
                 wire, handled, nReads, cutBlock, pulled, tag>>

Next ==
  \/ CutStep \/ AfterCut \/ AfterRead \/ Catch \/ PullBody \/ Destroy
  \/ OnData \/ OnEnd \/ OnError \/ WriteOk \/ WriteFail

Spec == Init /\ [][Next]_vars

\* The scheduling of the event loop.  In the states of Running the code of
\* the connection is executing (synchronous code, or the continuation of a
\* settled promise): it runs on, and every step of it moves pc.  A write in
\* flight completes, with or without an error.  Nothing is assumed of the
\* peer.
Running ==
  {"serve", "cut", "gotRead", "bodyGotRead", "catch", "pullBody", "finally"}
Pcs ==
  Running \cup {"awaitRead", "bodyAwaitRead", "awaitHeaderWrite",
                "awaitBodyWrite", "closed", "idle", "failed", "crashed",
                "req"}
Proceed == pc \in Running /\ pc' \in Pcs \ {pc}
SpecFair ==
  /\ Init /\ [][Next]_vars
  /\ WF_pc(Proceed)
  /\ WF_vars(WriteOk \/ WriteFail)

(***************************************************************************)
(* Requests as cutMessage declares them (HTTPReq), drawn from their parts: *)
(* the inputs of readerFromReq and HandleReq.                              *)
(***************************************************************************)
\* A Content-Length value, with what it declares: class is "zero", "pos" or
\* "neg" by the decimal integer the text starts with, "malformed" when it
\* starts with none.
ClValues ==
  {[present |-> FALSE, text |-> <<>>, class |-> "absent", n |-> 0],
   [present |-> TRUE, text |-> <<"0">>, class |-> "zero", n |-> 0],
   [present |-> TRUE, text |-> <<"3">>, class |-> "pos", n |-> 3],
   [present |-> TRUE, text |-> <<"5", "x">>, class |-> "pos", n |-> 5],
   [present |-> TRUE, text |-> <<"-", "5">>, class |-> "neg", n |-> 0],
   [present |-> TRUE, text |-> <<"a", "b", "c">>, class |-> "malformed",
    n |-> 0],
   [present |-> TRUE, text |-> <<>>, class |-> "malformed", n |-> 0]}
TeValues ==
  {[present |-> FALSE, text |-> <<>>],
   [present |-> TRUE, text |-> ValChunked],
   [present |-> TRUE, text |-> <<"g", "z", "i", "p">>]}
Methods == {<<"G", "E", "T">>, <<"H", "E", "A", "D">>, <<"P", "O", "S", "T">>}
Uris == {<<"/">>, <<"/", "e", "c", "h", "o">>}

Tags == [method : Methods, cl : ClValues, te : TeValues, uri : Uris]

ReqOf(t) ==
  [kind |-> "req", method |-> t.method, uri |-> t.uri, version |-> <<"1">>,
   headers |->
     (IF t.cl.present
      THEN << HdrContentLength \o <<":", SP>> \o t.cl.text >> ELSE <<>>)
     \o (IF t.te.present
         THEN << HdrTransferEncoding \o <<":", SP>> \o t.te.text >>
         ELSE <<>>)]

\* The bytes that follow the header block of the request.
BodyStream == <<"p", "q", "r", "s">>

\* The buffer after cutMessage removed a header block that n bytes of
\* `stream` followed.
BufferBehind(stream, n) ==
  bufPop(bufPush(EmptyBuf, ValidBlock \o SubSeq(stream, 1, n)),
         Len(ValidBlock))

(***************************************************************************)
(* serveClient from the point where cutMessage returned a request.         *)
(***************************************************************************)
ServeTags ==
  {t \in Tags : /\ ~t.te.present
                /\ t.cl.text \in {<<>>, <<"3">>}
                /\ t.cl.class \in {"absent", "pos"}
                /\ t.method # <<"H", "E", "A", "D">>}

InitServe ==
  /\ tag \in ServeTags
  /\ msg = ReqOf(tag)
  /\ input \in {ValidBlock, BodyStream \o ValidBlock}
  /\ sent \in {0, Len(input)}
  /\ buf = BufferBehind(input, sent)
  /\ pc = "cut"
  /\ sock = NewSocket
  /\ reader = "null"
  /\ reads = <<>>
  /\ held = 0
  /\ rres = [kind |-> "none", data |-> <<>>]
  /\ exc = NoExc
  /\ resp = NoResp
  /\ body = NoBody
  /\ wdata = <<>>
  /\ wire = <<>>
  /\ handled = <<>>
  /\ nReads = 0
  /\ cutBlock = ValidBlock
  /\ pulled = <<>>

SpecServe == InitServe /\ [][Next]_vars

(***************************************************************************)
(* A body reader made by readerFromReq and pulled by its consumer.         *)
(***************************************************************************)
InitBody ==
  /\ tag \in {t \in Tags : t.uri = <<"/">>}
  /\ msg = ReqOf(tag)
  /\ input = BodyStream
  /\ sent \in 0..Len(input)
  /\ buf = BufferBehind(input, sent)
  /\ pc = "req"
  /\ sock = NewSocket
  /\ reader = "null"
  /\ reads = <<>>
  /\ held = 0
  /\ rres = [kind |-> "none", data |-> <<>>]
  /\ exc = NoExc
  /\ resp = NoResp
  /\ body = NoBody
  /\ wdata = <<>>
  /\ wire = <<>>
  /\ handled = <<>>
  /\ nReads = 0
  /\ cutBlock = ValidBlock
  /\ pulled = <<>>

\* const reqBody = readerFromReq(conn, buf, msg)
MakeReader ==
  /\ pc = "req"
  /\ IF readerFromReq(msg).kind = "err"
     THEN /\ exc' = readerFromReq(msg)
          /\ pc' = "failed"
          /\ UNCHANGED body
     ELSE /\ body' = readerFromReq(msg)
          /\ pc' = "idle"
          /\ UNCHANGED exc
  /\ UNCHANGED <<input, sent, sock, reader, reads, held, buf, msg, rres,
                 resp, wdata,
                 wire, handled, nReads, cutBlock, pulled, tag>>

\* The consumer calls body.read().
ConsumerPull ==
  /\ pc = "idle"
  /\ Len(pulled) < MaxPulls
  /\ LET r == ReadStart(body, buf)
     IN IF r.kind = "await"
        THEN /\ soRead("bodyAwaitRead")
             /\ UNCHANGED <<body, buf, pulled>>
        ELSE /\ body' = r.body
             /\ buf' = r.buf
             /\ ConsumerGot(r.chunk, FALSE)
             /\ UNCHANGED <<reader, reads, held, sock, nReads>>
  /\ UNCHANGED <<input, sent, msg, rres, exc, resp, wdata, wire, handled,
                 cutBlock, tag>>

NextBody ==
  \/ MakeReader \/ ConsumerPull \/ AfterRead \/ OnData \/ OnEnd \/ OnError

SpecBody == InitBody /\ [][NextBody]_vars

(***************************************************************************)
(* A body reader pulled by code that serveClient awaits: what readerFromReq *)
(* or a pull throws leaves serveClient, which has no handler of its own,   *)
(* and arrives in the catch of newConn.                                    *)
(***************************************************************************)
Rethrow ==
  /\ pc = "failed"
  /\ pc' = "catch"
  /\ UNCHANGED <<input, sent, sock, reader, reads, held, buf, msg, rres, exc,
                 resp, body, wdata, wire, handled, nReads, cutBlock, pulled,
                 tag>>

NextPull ==
  \/ MakeReader \/ ConsumerPull \/ AfterRead \/ Rethrow \/ Catch \/ PullBody
  \/ Destroy \/ OnData \/ OnEnd \/ OnError \/ WriteOk \/ WriteFail

SpecPull == InitBody /\ [][NextPull]_vars

(***************************************************************************)
(* The socket adapter under any caller: soRead may be called at any time,  *)
(* also while an earlier read is outstanding, after the end of the stream, *)
(* after a transport error and after socket.destroy().                     *)
(***************************************************************************)
InitAdapter ==
  /\ input = BodyStream
  /\ sent = 0
  /\ sock = NewSocket
  /\ reader = "null"
  /\ reads = <<>>
  /\ held = 0
  /\ buf = EmptyBuf
  /\ pc = "idle"
  /\ msg = [kind |-> "null"]
  /\ rres = [kind |-> "none", data |-> <<>>]
  /\ exc = NoExc
  /\ resp = NoResp
  /\ body = NoBody
  /\ wdata = <<>>
  /\ wire = <<>>
  /\ handled = <<>>
  /\ nReads = 0
  /\ cutBlock = <<>>
  /\ pulled = <<>>
  /\ tag = NoTag

\* A caller calls soRead(conn) and awaits the promise.
CallerRead ==
  /\ pc \in {"idle", "bodyAwaitRead"}
  /\ nReads < MaxReads
  /\ soRead("bodyAwaitRead")
  /\ UNCHANGED <<input, sent, buf, msg, rres, exc, resp, body, wdata, wire,
                 handled, cutBlock, pulled, tag>>

\* The caller goes on after its promise was settled.
CallerGot ==
  /\ pc = "bodyGotRead"
  /\ pc' = "idle"
  /\ UNCHANGED <<input, sent, sock, reader, reads, held, buf, msg, rres, exc,
                 resp, body, wdata, wire, handled, nReads, cutBlock, pulled,
                 tag>>

\* socket.destroy() by the owner of the socket.  The socket emits 'close',
\* for which soInit registers no handler: conn.reader is left as it is.
CallerDestroy ==
  /\ pc \in {"idle", "bodyAwaitRead"}
  /\ ~sock.destroyed
  /\ sock' = [sock EXCEPT !.destroyed = TRUE]
  /\ UNCHANGED <<input, sent, reader, reads, held, buf, pc, msg, rres, exc,
                 resp, body, wdata, wire, handled, nReads, cutBlock, pulled,
                 tag>>

NextAdapter ==
  \/ CallerRead \/ CallerGot \/ CallerDestroy
  \/ OnData \/ OnEnd \/ OnError

SpecAdapter == InitAdapter /\ [][NextAdapter]_vars

\* A socket that is flowing emits its next event, 'data' or 'end'; a caller
\* whose promise was settled goes on.  No transport error is forced, and
\* the caller is free to call soRead or not.
SpecAdapterFair ==
  /\ SpecAdapter
  /\ WF_vars(OnData \/ OnEnd)
  /\ WF_vars(CallerGot)

(***************************************************************************)
(* The growable buffer on its own: any pushes and pops.  `input` is the    *)
(* bytes to push, `sent` how many of them were pushed, `pulled` the bytes  *)
(* each pop removed.                                                       *)
(***************************************************************************)
Alphabet ==
  <<"a", "b", "c", "d", "e", "f", "g", "h", "i", "j", "k", "l", "m", "n", "o",
    "p", "q", "r", "s", "t", "u", "v", "w", "x", "y", "z", "0", "1", "2", "3",
    "4", "5", "6", "7", "8", "9", "A">>
PushStream == [i \in 1..MaxPushed |-> Alphabet[((i - 1) % Len(Alphabet)) + 1]]
\* The lengths of the pushed chunks: the empty chunk, a short one, and
\* chunks below and above the first capacity of 32.
PushSizes == {0, 3, 30, 33}

InitBuf ==
  /\ input = PushStream
  /\ sent = 0
  /\ sock = NewSocket
  /\ reader = "null"
  /\ reads = <<>>
  /\ held = 0
  /\ buf = EmptyBuf
  /\ pc = "buf"
  /\ msg = [kind |-> "null"]
  /\ rres = [kind |-> "none", data |-> <<>>]
  /\ exc = NoExc
  /\ resp = NoResp
  /\ body = NoBody
  /\ wdata = <<>>
  /\ wire = <<>>
  /\ handled = <<>>
  /\ nReads = 0
  /\ cutBlock = <<>>
  /\ pulled = <<>>
  /\ tag = NoTag

\* bufPush(buf, data) with the next bytes of the stream.
Push ==
  /\ pc = "buf"
  /\ \E n \in PushSizes :
       /\ sent + n <= Len(input)
       /\ buf' = bufPush(buf, SubSeq(input, sent + 1, sent + n))
       /\ sent' = sent + n
  /\ UNCHANGED <<input, sock, reader, reads, held, pc, msg, rres, exc, resp,
                 body, wdata, wire, handled, nReads, cutBlock, pulled, tag>>

\* bufPop(buf, len) for any len up to the logical length.
Pop ==
  /\ pc = "buf"
  /\ Len(pulled) < MaxPops
  /\ \E n \in 0..buf.length :
       /\ pulled' = Append(pulled, [chunk |-> SubSeq(buf.data, 1, n),
                                    read |-> FALSE])
       /\ buf' = bufPop(buf, n)
  /\ UNCHANGED <<input, sent, sock, reader, reads, held, pc, msg, rres, exc,
                 resp, body, wdata, wire, handled, nReads, cutBlock, tag>>

NextBuf == Push \/ Pop

SpecBuf == InitBuf /\ [][NextBuf]_vars

(***************************************************************************)
(* The line-echo server (echo_serverTCP.ts).  Its soInit, soRead, soWrite, *)
(* bufPush and bufPop are the code of http_server.ts; its cutMessage and   *)
(* its newConn are its own.  `wire` is the replies written.                *)
(***************************************************************************)
EchoPrefix == <<"E", "c", "h", "o", ":", SP>>
Bye == <<"B", "y", "e", ".", LF>>

\* cutMessage: msg = buf.data.subarray(0, idx + 1) is a view of the memory
\* of buf.data, not a copy; bufPop then moves the rest of the buffer to the
\* front of that memory.  The result holds the extent of the view.
EchoCutMessage(b) ==
  LET idx == IndexOfChar(View(b), LF)
  IN IF idx < 0
     THEN [res |-> [kind |-> "null"], buf |-> b]
     ELSE [res |-> [kind |-> "view", len |-> idx + 1],
           buf |-> bufPop(b, idx + 1)]

\* msg.toString().trim(), read through the view after cutMessage returned;
\* then the reply: "Bye.\n" for a line with a q, or `Echo: ${str}\n`.
EchoStr(b, m) == Trim(Utf8Decode(SubSeq(b.data, 1, m.len)))
EchoReply(b, m) ==
  IF \E i \in 1..Len(EchoStr(b, m)) : EchoStr(b, m)[i] = "q"
  THEN Bye
  ELSE Utf8Encode(EchoPrefix \o EchoStr(b, m) \o <<LF>>)

\* What the peer sends: lines, each ended by a newline.
EchoInputs ==
  {<<"a", "b", LF, "c", "d", LF>>, <<"a", "b", "c", LF, "d", LF>>,
   <<"a", LF>>, <<"a", LF, "q", LF>>}

InitEcho ==
  /\ input \in EchoInputs
  /\ sent = 0
  /\ sock = NewSocket
  /\ reader = "null"
  /\ reads = <<>>
  /\ held = 0
  /\ buf = EmptyBuf
  /\ pc = "serve"
  /\ msg = [kind |-> "null"]
  /\ rres = [kind |-> "none", data |-> <<>>]
  /\ exc = NoExc
  /\ resp = NoResp
  /\ body = NoBody
  /\ wdata = <<>>
  /\ wire = <<>>
  /\ handled = <<>>
  /\ nReads = 0
  /\ cutBlock = <<>>
  /\ pulled = <<>>
  /\ tag = NoTag

\* The top of the loop: let msg = cutMessage(buf); with no message, soRead;
\* with one, the reply is built and soWrite is awaited.
EchoLoop ==
  /\ pc = "serve"
  /\ LET r == EchoCutMessage(buf)
     IN IF r.res.kind = "null"
        THEN /\ soRead("awaitRead")
             /\ UNCHANGED <<buf, msg, wdata>>
        ELSE /\ buf' = r.buf
             /\ msg' = r.res
             /\ wdata' = EchoReply(r.buf, r.res)
             /\ pc' = "awaitBodyWrite"
             /\ UNCHANGED <<reader, reads, held, sock, nReads>>
  /\ UNCHANGED <<input, sent, rres, exc, resp, body, wire, handled, cutBlock,
                 pulled, tag>>

\* After `await soRead(conn)`: a rejected read goes to the catch and an
\* empty chunk breaks, both to the finally; any other chunk is pushed and
\* cutMessage is tried again.
EchoAfterRead ==
  /\ pc = "gotRead"
  /\ IF rres.kind = "err" \/ Len(rres.data) = 0
     THEN /\ pc' = "finally"
          /\ UNCHANGED <<buf, msg, wdata>>
     ELSE LET r == EchoCutMessage(bufPush(buf, rres.data))
          IN /\ buf' = r.buf
             /\ IF r.res.kind = "null"
                THEN pc' = "serve" /\ UNCHANGED <<msg, wdata>>
                ELSE /\ msg' = r.res
                     /\ wdata' = EchoReply(r.buf, r.res)
                     /\ pc' = "awaitBodyWrite"
  /\ UNCHANGED <<input, sent, sock, reader, reads, held, rres, exc, resp,
                 body, wire, handled, nReads, cutBlock, pulled, tag>>

\* soWrite's callback without an error: after "Bye.\n" the loop is left,
\* after an echo it goes on.
EchoWriteOk ==
  /\ pc = "awaitBodyWrite"
  /\ ~sock.errored /\ ~sock.destroyed
  /\ wire' = IF Len(wire) < MaxWire THEN Append(wire, wdata) ELSE wire
  /\ pc' = IF wdata = Bye THEN "finally" ELSE "serve"
  /\ UNCHANGED <<input, sent, sock, reader, reads, held, buf, msg, rres, exc,
                 resp, body, wdata, handled, nReads, cutBlock, pulled, tag>>

\* soWrite's callback with an error: the catch, then the finally.
EchoWriteFail ==
  /\ pc = "awaitBodyWrite"
  /\ pc' = "finally"
  /\ UNCHANGED <<input, sent, sock, reader, reads, held, buf, msg, rres, exc,
                 resp, body, wdata, wire, handled, nReads, cutBlock, pulled,
                 tag>>

\* The finally: conn.socket.end().
EchoEnd ==
  /\ pc = "finally"
  /\ pc' = "closed"
  /\ UNCHANGED <<input, sent, sock, reader, reads, held, buf, msg, rres, exc,
                 resp, body, wdata, wire, handled, nReads, cutBlock, pulled,
                 tag>>

NextEcho ==
  \/ EchoLoop \/ EchoAfterRead \/ EchoWriteOk \/ EchoWriteFail \/ EchoEnd
  \/ OnData \/ OnEnd \/ OnError

SpecEcho == InitEcho /\ [][NextEcho]_vars

(***************************************************************************)
(* Properties.                                                             *)
(***************************************************************************)
RECURSIVE WireLen(_, _)
\* The bytes of the writes w[k], w[k + 1], ...
WireLen(w, k) == IF k > Len(w) THEN 0 ELSE Len(w[k]) + WireLen(w, k + 1)

RECURSIVE WireBytes(_, _)
WireBytes(w, k) == IF k > Len(w) THEN <<>> ELSE w[k] \o WireBytes(w, k + 1)

RECURSIVE PulledBytes(_, _)
\* The bytes of the first k pulls.
PulledBytes(p, k) ==
  IF k = 0 THEN <<>> ELSE PulledBytes(p, k - 1) \o p[k].chunk

\* C1: in serveClient, the Response the handler returned for a framed
\* request is on the connection, header block and all body bytes, before
\* cutMessage is called again.
ResponseWritten(h) ==
  \E k \in 1..Len(wire) :
    /\ wire[k] = encodeHTTPResp(WithContentLength(h.res))
    /\ WireLen(wire, k + 1) >= h.res.body.length
C1_ResponseBeforeNextFrame ==
  pc = "serve" => \A i \in 1..Len(handled) : ResponseWritten(handled[i])

\* C2: however the bytes of a valid header block are split into chunks, the
\* driver's soRead / bufPush / cutMessage loop produces the parsed Request
\* and the residual buffer that cutMessage produces from the whole block in
\* one chunk.
ValidBlocks == {ValidBlock, BareBlock}
C2_ChunkBoundaryInvariance ==
  (pc = "cut" /\ input \in ValidBlocks /\ msg.kind # "null")
    => /\ msg.kind = "req"
       /\ msg = cutMessage(bufPush(EmptyBuf, input)).res
       /\ View(buf) = View(cutMessage(bufPush(EmptyBuf, input)).buf)

\* C3: for a body-bearing request with Content-Length N, the pulls of the
\* length-bounded stream return, in order, the first N bytes that follow the
\* header block, each pull before the N-th byte a non-empty chunk, however
\* those bytes are split between the buffer and later transport chunks; every
\* pull after the N-th byte returns an empty chunk and makes no transport
\* read.
C3_LengthBoundedPulls ==
  (tag.method = <<"P", "O", "S", "T">> /\ body.kind = "cl")
    => LET got == PulledBytes(pulled, Len(pulled))
       IN /\ body.length = tag.cl.n
          /\ Len(got) <= body.length
          /\ got = SubSeq(input, 1, Len(got))
          /\ body.remain = body.length - Len(got)
          /\ \A k \in 1..Len(pulled) :
               IF Len(PulledBytes(pulled, k - 1)) = body.length
               THEN pulled[k].chunk = <<>> /\ ~pulled[k].read
               ELSE Len(pulled[k].chunk) > 0
C3_Witness ==
  /\ tag.method = <<"P", "O", "S", "T">> /\ body.kind = "cl"
  /\ body.length = 3
  /\ Len(pulled) = 4
  /\ pulled[1].read /\ pulled[2].read
  /\ PulledBytes(pulled, 2) = <<"p", "q", "r">>
  /\ pulled[3].chunk = <<>> /\ pulled[4].chunk = <<>>

\* C4: what writeHTTPResp puts on the connection for a Response with an
\* in-memory body is one header block with Content-Length equal to the
\* payload length, then body bytes that are a prefix of the payload: never
\* more than Content-Length of them.
C4_ResponseFraming ==
  (resp.active /\ body.kind = "mem" /\ Len(wire) >= 1)
    => /\ wire[1] = encodeHTTPResp(resp)
       /\ resp.headers[Len(resp.headers)]
            = HdrContentLength \o <<":", SP>> \o DecStr(Len(body.data))
       /\ WireLen(wire, 2) <= Len(body.data)
       /\ WireBytes(wire, 2) = SubSeq(body.data, 1, WireLen(wire, 2))

\* C5: once newConn has caught an HTTPError, no further request is framed
\* and no further read is issued; the one error Response carries the
\* error's status and message; once its header block and its message are
\* written nothing more is written (the next thing is the destroy).
C5_OneErrorResponse ==
  [][(exc.http /\ pc # "cut")
       => /\ nReads' = nReads
          /\ cutBlock' = cutBlock /\ handled' = handled
          /\ Len(wire') >= 1 =>
               wire'[1] = encodeHTTPResp(WithContentLength(ErrorResp(exc)))
          /\ Len(wire') >= 2 => wire'[2] = exc.message \o <<LF>>
          /\ Len(wire) >= 2 => wire' = wire /\ pc' # "awaitBodyWrite"]_vars

\* C6: a connection on which the peer ended the stream, the transport
\* failed or an HTTPError was raised eventually has its socket destroyed.
C6_EventuallyClosed ==
  (sock.ended \/ sock.errored \/ exc.http) ~> (pc = "closed")

\* C7: when cutMessage finds no terminator in the buffer, it throws 413 if
\* 8192 bytes or more are buffered, and no transport read follows; below
\* 8192 bytes it returns null, without an error, and the driver's next step
\* is a transport read.
C7_CapOrNeedMore ==
  [][/\ (pc = "serve" /\ IndexOfTerminator(View(buf)) < 0)
          => /\ buf' = buf
             /\ IF buf.length >= 8192
                THEN msg'.kind = "err" /\ msg'.http /\ msg'.code = 413
                ELSE msg'.kind = "null"
     /\ (pc = "cut" /\ msg.kind = "null")
          => pc' = "awaitRead" /\ reader' = "set" /\ nReads' = nReads + 1
     /\ ((pc = "cut" /\ msg.kind = "err") \/ exc.kind = "err")
          => nReads' = nReads /\ reader' = "null"]_vars
C7_Witness ==
  /\ pc = "catch" /\ exc.code = 413
  /\ buf.length = 8192 /\ nReads = 2

\* C8: no Request is framed from a header block of 8192 bytes or more, and a
\* cutMessage that finds 8192 or more unframed bytes answers 413.
C8_HeaderCapBoundsBlock ==
  pc = "cut"
    => /\ msg.kind = "req" => Len(cutBlock) < 8192
       /\ (msg.kind # "req" /\ buf.length >= 8192)
            => msg.kind = "err" /\ msg.code = 413

\* C9: a terminated header block is malformed if its request line is not
\* three space-separated tokens, the third starting with HTTP/, or a header
\* line has no colon, an empty name or a name character outside the token
\* class; a malformed block fails with 400, any other block yields a Request
\* with the version suffix verbatim and the header lines in order.
BlockLines(block) ==
  LET text == SubSeq(block, 1, Len(block) - 4)
  IN SplitAt(text,
             {i \in 1..(Len(text) - 1) : text[i] = CR /\ text[i + 1] = LF}, 2)
LineTokens(line) == SplitAt(line, {i \in 1..Len(line) : line[i] = SP}, 1)
RequestLineOk(line) ==
  /\ Len(LineTokens(line)) = 3
  /\ Len(LineTokens(line)[3]) >= 5
  /\ SubSeq(LineTokens(line)[3], 1, 5) = <<"H", "T", "T", "P", "/">>
HeaderLineOk(h) ==
  /\ IndexOfChar(h, ":") > 0
  /\ \A i \in 1..IndexOfChar(h, ":") : h[i] \in TokenChars
BlockOk(block) ==
  /\ RequestLineOk(BlockLines(block)[1])
  /\ \A k \in 2..Len(BlockLines(block)) : HeaderLineOk(BlockLines(block)[k])
C9_ParseOutcome ==
  (pc = "cut" /\ cutBlock # <<>>)
    => IF BlockOk(cutBlock)
       THEN /\ msg.kind = "req"
            /\ msg.version
                 = SubSeq(LineTokens(BlockLines(cutBlock)[1])[3], 6,
                          Len(LineTokens(BlockLines(cutBlock)[1])[3]))
            /\ msg.headers = Tail(BlockLines(cutBlock))
       ELSE msg.kind = "err" /\ msg.code = 400

\* C10: for GET and HEAD, readerFromReq fails with 400 when the request
\* declares a positive Content-Length or Transfer-Encoding: chunked, and
\* otherwise returns a stream of declared length 0 whose pulls return an
\* empty chunk at once, with no transport read and no byte removed from the
\* buffer.
BodylessTag ==
  tag.method \in {<<"G", "E", "T">>, <<"H", "E", "A", "D">>} /\ pc # "req"
Failed400 == pc = "failed" /\ exc.http /\ exc.code = 400 /\ body = NoBody
EmptyStream ==
  /\ pc = "idle" /\ exc = NoExc
  /\ body.kind = "cl" /\ body.length = 0
  /\ \A k \in 1..Len(pulled) : pulled[k].chunk = <<>> /\ ~pulled[k].read
  /\ nReads = 0 /\ reader = "null"
  /\ buf = BufferBehind(input, sent)
PostTag == tag.method = <<"P", "O", "S", "T">> /\ pc # "req"
Failed501 == pc = "failed" /\ exc.http /\ exc.code = 501 /\ body = NoBody
C11_ChunkedNotImplemented ==
  (PostTag /\ tag.te.text = ValChunked) => Failed501

\* C12: a Content-Length value that is not a non-negative base-10 integer
\* makes readerFromReq fail with 400; a length-bounded stream is built only
\* from a well-formed value, and its bound is that value.
WellFormedLength(text) ==
  Len(text) > 0 /\ \A i \in 1..Len(text) : text[i] \in Digits
C12_MalformedLengthRejected ==
  (tag.cl.present /\ pc # "req")
    => IF WellFormedLength(tag.cl.text)
       THEN body.kind = "cl"
              => body.length = DigitsValue(tag.cl.text, Len(tag.cl.text))
       ELSE Failed400

\* C13: for a body-bearing method with neither Content-Length nor
\* Transfer-Encoding: chunked, readerFromReq fails with 501; no read was
\* issued, no chunk pulled and no byte removed from the buffer.
C13_UnknownBodyType ==
  (PostTag /\ ~tag.cl.present /\ tag.te.text # ValChunked)
    => /\ Failed501
       /\ exc.message = MsgUnknownBody
       /\ nReads = 0 /\ reader = "null" /\ pulled = <<>>
       /\ buf = BufferBehind(input, sent)
C13_Witness ==
  /\ PostTag /\ ~tag.cl.present /\ tag.te.text = <<"g", "z", "i", "p">>
  /\ sent = 2 /\ Failed501

\* C14: when the read serveClient awaits is resolved by the end of the
\* stream, an empty buffer ends the connection without an error, and the
\* socket is destroyed with nothing written; a buffer that holds bytes
\* makes the driver throw HTTPError 400.
C14_EndOfStream ==
  [][/\ (pc = "gotRead" /\ rres.kind = "data" /\ Len(rres.data) = 0)
          => IF buf.length = 0
             THEN pc' = "finally" /\ exc' = NoExc /\ wire' = <<>>
             ELSE /\ pc' = "catch"
                  /\ exc'.http /\ exc'.code = 400
                  /\ exc'.message = MsgUnexpectedEOF
     /\ (pc = "finally" /\ exc = NoExc)
          => pc' = "closed" /\ sock'.destroyed /\ wire' = <<>>]_vars
C14_Witness ==
  /\ pc = "catch" /\ sock.ended
  /\ exc.code = 400 /\ exc.message = MsgUnexpectedEOF
  /\ buf.length = 3 /\ nReads = 3

\* C15: a soRead called while an earlier read is outstanding fails at once:
\* conn.reader still holds the earlier promise, which stays pending until
\* the next transport event, and the promise of the new call is rejected.
C15_SecondReadFailsFast ==
  [][(reader = "set" /\ nReads' = nReads + 1)
       => /\ held' = held /\ reads'[held] = "pending"
          /\ Len(reads') = Len(reads) + 1
          /\ reads'[Len(reads')] = "err"]_vars

\* C16: after the end of the stream no read stays outstanding: the read
\* conn.reader holds is settled.
C16_EmptyAfterEnd ==
  (sock.ended /\ ~sock.errored /\ ~sock.destroyed /\ held > 0)
    ~> (held = 0)

\* C17: after a transport error or socket.destroy() no read stays
\* outstanding: the read conn.reader holds is settled.
C17_NoReadPendingAfterFailure ==
  ((sock.errored \/ sock.destroyed) /\ held > 0) ~> (held = 0)

\* C18: the socket starts paused and is paused whenever no read is
\* outstanding, so a chunk is delivered only to an outstanding read; a
\* delivered chunk settles exactly that read, with the bytes that follow
\* the ones delivered before, and pauses the socket; the bytes reach the
\* connection buffer in transport order, none dropped or repeated.
Delivered ==
  View(buf) \o (IF pc = "gotRead" /\ rres.kind = "data" THEN rres.data
                ELSE <<>>)
C18_FlowControl ==
  /\ [](/\ pc # "crashed"
        /\ (reader = "null" /\ ~sock.ended /\ ~sock.errored) => sock.paused
        /\ Delivered = SubSeq(input, 1, sent))
  /\ [][sent' # sent
          => /\ reader = "set" /\ reads[held] = "pending"
             /\ reads' = [reads EXCEPT ![held] = "data"]
             /\ reader' = "null" /\ sock'.paused
             /\ rres'.data = SubSeq(input, sent + 1, sent')]_vars
C18_Witness ==
  /\ input = ValidBlock /\ sent = Len(input)
  /\ reads = <<"data", "data", "data">>
  /\ sock.paused /\ reader = "null"
  /\ pc = "serve" /\ View(buf) = input

\* C19: a push appends the pushed bytes to the logical content; a pop of n
\* removes its first n bytes and keeps the others in order; after any
\* pushes and pops the logical content is the pushed bytes without the
\* popped prefix.
C19_PrefixRemoval ==
  /\ [](/\ buf.length <= Len(buf.data)
        /\ PulledBytes(pulled, Len(pulled)) \o View(buf)
             = SubSeq(input, 1, sent))
  /\ [][IF sent' # sent
        THEN View(buf') = View(buf) \o SubSeq(input, sent + 1, sent')
        ELSE \E n \in 0..buf.length :
               /\ buf'.length = buf.length - n
               /\ View(buf') = SubSeq(View(buf), n + 1, buf.length)]_vars
C19_Witness ==
  /\ pc = "buf" /\ sent = 36 /\ Len(buf.data) = 64
  /\ Len(pulled) = 2 /\ Len(pulled[1].chunk) = 2 /\ Len(pulled[2].chunk) = 29
  /\ View(buf) = SubSeq(input, 32, 36)

\* C20: an in-memory stream declares the length of its payload; its first
\* pull returns the whole payload, which writeHTTPResp then writes, and
\* every later pull returns an empty chunk, on which writeHTTPResp ends.
C20_MemoryStreamOnce ==
  [][(pc = "pullBody" /\ body.kind = "mem")
       => /\ body.length = Len(body.data)
          /\ IF ~body.done
             THEN /\ wdata' = body.data /\ pc' = "awaitBodyWrite"
                  /\ body'.done
             ELSE pc' = "finally"]_vars

\* C21: a cutMessage that returns a request has removed the header block,
\* terminator included, from the front of the buffer and left the bytes
\* behind it as they were; a cutMessage that throws 400 or 413, or returns
\* null, leaves the buffer as it was.
C21_CutFrameEffect ==
  [][pc = "serve"
       => IF msg'.kind = "req"
          THEN /\ IndexOfTerminator(View(buf)) >= 0
               /\ buf'.length = buf.length - (IndexOfTerminator(View(buf)) + 4)
               /\ View(buf') = SubSeq(View(buf),
                                      IndexOfTerminator(View(buf)) + 5,
                                      buf.length)
          ELSE /\ buf' = buf
               /\ \/ msg'.kind = "null"
                  \/ msg'.kind = "err" /\ msg'.code \in {400, 413}]_vars
C21_Witness ==
  /\ pc = "cut" /\ msg.kind = "err" /\ msg.code = 400
  /\ cutBlock = ValidBlock /\ View(buf) = ValidBlock

\* C22: a pull on a length-bounded stream that awaited the transport with
\* bytes still owed and got the end of the stream throws an Error that is no
\* HTTPError; from then on nothing is written to the peer, no response is
\* begun, the code only goes through the catch and the finally of newConn,
\* and the finally destroys the socket.
EOFInBody == exc = PlainError(MsgEOFInBody)
C22_EOFInBodyIsLocal ==
  /\ [](EOFInBody
          => /\ pc \in {"failed", "catch", "finally", "closed"}
             /\ wire = <<>> /\ ~resp.active
             /\ (pc = "closed" => sock.destroyed))
  /\ [][/\ (pc = "bodyGotRead" /\ ~resp.active
            /\ body.kind = "cl" /\ body.remain > 0
            /\ rres.kind = "data" /\ rres.data = <<>>)
            => (pc' = "failed" /\ EOFInBody' /\ ~exc'.http)
        /\ (EOFInBody /\ pc = "failed") => pc' = "catch"
        /\ (EOFInBody /\ pc = "catch") => pc' = "finally"
        /\ (EOFInBody /\ pc = "finally")
            => (pc' = "closed" /\ sock'.destroyed)]_vars
C22_Witness ==
  /\ EOFInBody /\ pc = "closed" /\ sock.destroyed
  /\ Len(pulled) = 1 /\ pulled[1].chunk = <<"p", "q">> /\ wire = <<>>

\* C23: a pull on a length-bounded stream takes from the front of the buffer
\* no more than min(bytes buffered, bytes still owed); the bytes pulled, the
\* bytes buffered and the chunk a read has just delivered are together the
\* bytes the peer sent, in order, so that once N bytes were pulled the buffer
\* begins with byte N+1 of the stream; the length field of the stream stays
\* the declared N.
Arrived == IF pc = "bodyGotRead" /\ rres.kind = "data" THEN rres.data ELSE <<>>
C23_PullLeavesFollowingBytes ==
  /\ []((tag.method = <<"P", "O", "S", "T">> /\ body.kind = "cl")
         => LET got == PulledBytes(pulled, Len(pulled))
            IN /\ body.length = tag.cl.n
               /\ Len(got) <= body.length
               /\ got \o View(buf) \o Arrived = SubSeq(input, 1, sent)
               /\ (Len(got) = body.length /\ buf.length > 0)
                   => View(buf)[1] = input[body.length + 1])
  /\ [][(body.kind = "cl" /\ pc \in {"idle", "bodyGotRead"})
          => LET avail == buf.length + Len(Arrived)
             IN /\ buf'.length >= avail - Min(avail, body.remain)
                /\ buf'.length >= avail - body.remain
                /\ body'.length = body.length]_vars
C23_Witness ==
  /\ tag.method = <<"P", "O", "S", "T">> /\ body.kind = "cl"
  /\ body.length = 3 /\ body.remain = 0
  /\ PulledBytes(pulled, Len(pulled)) = <<"p", "q", "r">>
  /\ View(buf) = <<"s">>

\* C24: writeHTTPResp writes first, as one write, the status line, the
\* header lines of the response in their order, the Content-Length line
\* appended last and the blank line; no body byte precedes it.  Each later
\* write is the non-empty chunk the pull before it returned, nothing is
\* pulled while a write is in flight, and a response with a negative body
\* length has nothing written.
RECURSIVE LinesThenBlank(_, _)
LinesThenBlank(lines, k) ==
  IF k > Len(lines) THEN <<CR, LF>>
  ELSE lines[k] \o <<CR, LF>> \o LinesThenBlank(lines, k + 1)
HeaderBlockOf(code, lines, n) ==
  <<"H", "T", "T", "P", "/", "1", ".", "1", SP>> \o DecStr(code)
  \o <<SP, "O", "K", CR, LF>>
  \o LinesThenBlank(
       Append(lines, <<"C", "o", "n", "t", "e", "n", "t", "-", "L", "e", "n",
                       "g", "t", "h", ":", SP>> \o DecStr(n)), 1)
WriterState ==
  /\ encodeHTTPResp(WithContentLength(
       HandleReq(ReqOf(CHOOSE t \in ServeTags : t.uri = <<"/">>), NoBody)))
       = HeaderBlockOf(200, <<HdrServer>>, Len(HelloWorld))
  /\ resp.active
     => /\ pc = "awaitHeaderWrite" => wire = <<>>
        /\ pc = "awaitHeaderWrite"
           => wdata = HeaderBlockOf(exc.code, <<>>, Len(exc.message) + 1)
        /\ Len(wire) >= 1
           => wire[1] = HeaderBlockOf(exc.code, <<>>, Len(exc.message) + 1)
        /\ pc = "awaitBodyWrite" => (Len(wire) >= 1 /\ wdata # <<>>)
        /\ \A k \in 2..Len(wire) : wire[k] # <<>>
C24_WriteOrder ==
  /\ []WriterState
  /\ [][/\ AwaitingWrite => (body' = body /\ nReads' = nReads)
        /\ (AwaitingWrite /\ wire' # wire)
            => (wire' = Append(wire, wdata) /\ pc' = "pullBody")
        /\ (pc = "pullBody" /\ pc' = "awaitBodyWrite")
            => (wdata' = ReadStart(body, buf).chunk /\ wire' = wire)
        /\ (pc = "pullBody" /\ ReadStart(body, buf).kind = "chunk"
               /\ ReadStart(body, buf).chunk = <<>>)
            => (pc' = "finally" /\ wire' = wire)
        /\ (pc = "catch" /\ exc.http /\ ErrorResp(exc).body.length < 0)
            => (pc' = "finally" /\ wire' = wire /\ ~resp'.active)]_vars
C24_Witness ==
  /\ resp.active /\ pc = "pullBody" /\ Len(wire) = 2
  /\ exc = HTTPError(413, MsgHeaderTooLarge)
  /\ wire[1] = HeaderBlockOf(413, <<>>, 17)
  /\ wire[2] = MsgHeaderTooLarge \o <<LF>>

\* C25: at most one transport operation is in flight: at most one read is
\* pending, a read is outstanding only while the code awaits it, none is
\* outstanding while a write is awaited, and a read or a write is issued
\* only when neither a read nor a write is outstanding.
PendingReads == {k \in DOMAIN reads : reads[k] = "pending"}
InFlight == Cardinality(PendingReads) + (IF AwaitingWrite THEN 1 ELSE 0)
OneInFlight ==
  /\ InFlight <= 1
  /\ reader = "set" => (AwaitingRead /\ PendingReads = {held})
  /\ AwaitingWrite => (reader = "null" /\ PendingReads = {})
C25_OneTransportOperation ==
  /\ []OneInFlight
  /\ [][/\ nReads' > nReads => (InFlight = 0 /\ reader = "null")
        /\ (AwaitingWrite' /\ pc' # pc) => (reader = "null" /\ InFlight' = 1)
        /\ (AwaitingWrite' /\ AwaitingWrite /\ pc' # pc) => FALSE]_vars
C25_Witness ==
  /\ pc = "awaitBodyWrite" /\ InFlight = 1 /\ reader = "null"
  /\ nReads = 2 /\ Len(wire) = 1

\* C26: the capacity of the buffer (the length of buf.data) is 0 or 32 times
\* a power of two and never decreases; it grows only in a push that makes
\* the logical length exceed it; the logical length is between 0 and the
\* capacity, so no pop has taken more than the logical length.
RECURSIVE IsCapacity(_)
IsCapacity(c) == c = 32 \/ (c > 32 /\ c % 2 = 0 /\ IsCapacity(c \div 2))
C26_Capacity ==
  /\ [](/\ Len(buf.data) = 0 \/ IsCapacity(Len(buf.data))
        /\ 0 <= buf.length /\ buf.length <= Len(buf.data))
  /\ [][/\ Len(buf'.data) >= Len(buf.data)
        /\ Len(buf'.data) > Len(buf.data)
           => (buf'.length > buf.length /\ buf'.length > Len(buf.data))
        /\ (buf'.length > buf.length /\ buf'.length <= Len(buf.data))
           => Len(buf'.data) = Len(buf.data)
        /\ buf'.length < buf.length => Len(buf'.data) = Len(buf.data)]_vars
C26_Witness ==
  /\ pc = "buf" /\ Len(buf.data) = 64 /\ buf.length = 3
  /\ Len(pulled) = 2 /\ Len(pulled[1].chunk) = 30 /\ Len(pulled[2].chunk) = 3

\* C27: after a request with Content-Length N > 0 was given to HandleReq,
\* the next header block cutMessage finds begins at byte N + 1 of the bytes
\* that follow the header block of that request: none of the N body bytes is
\* part of it.
C27_BodyNotScannedAsHeader ==
  (/\ pc = "cut" /\ Len(handled) = 1 /\ cutBlock # <<>>
   /\ tag.cl.class = "pos")
    => /\ tag.cl.n + Len(cutBlock) <= Len(input)
       /\ cutBlock = SubSeq(input, tag.cl.n + 1, tag.cl.n + Len(cutBlock))

\* C28: the driver awaits a transport read only with a buffer that holds no
\* complete header block and fewer than kMaxHeaderLen bytes; a bodyless
\* request that is buffered whole behind a handled bodyless request is
\* framed next, without a transport read in between.
C28_ReadOnlyWhenNeeded ==
  /\ pc = "awaitRead"
     => (IndexOfTerminator(View(buf)) < 0 /\ buf.length < kMaxHeaderLen)
  /\ (/\ pc = "cut" /\ Len(handled) = 1 /\ nReads = 0
      /\ tag.cl.class = "absent" /\ input = ValidBlock /\ sent = Len(input))
     => (msg.kind = "req" /\ cutBlock = ValidBlock /\ View(buf) = <<>>)

\* C29: in the line-echo server, for lines without a q, the k-th reply
\* written is "Echo: " and the k-th line the peer sent, and when the server
\* awaits more bytes it has written one reply for each whole line received.
NewlinesIn(s) == {i \in 1..Len(s) : s[i] = LF}
LineOf(s, k) == SplitAt(s, NewlinesIn(s), 1)[k]
C29_EchoEachLine ==
  (\A i \in 1..Len(input) : input[i] # "q")
    => /\ Len(wire) <= Cardinality(NewlinesIn(SubSeq(input, 1, sent)))
       /\ \A k \in 1..Len(wire) :
            wire[k] = EchoPrefix \o LineOf(input, k) \o <<LF>>
       /\ pc = "awaitRead"
          => Len(wire) = Cardinality(NewlinesIn(SubSeq(input, 1, sent)))

=============================================================================
